---- MODULE Spec2Model ----
(***************************************************************************)
(* Versioned-item lifecycle and release workflow of the PLM backend        *)
(* (server.js): parts, assemblies, their versions, composition edges,      *)
(* permission grants, edit requests and release requests, as stored in the *)
(* SQLite tables, with one action per HTTP handler.                        *)
(*                                                                         *)
(* Spec, SpecAsm, SpecFail, SpecEdit, SpecCreate, SpecLabels, SpecMeta:     *)
(* every handler runs to completion before the next one starts.  SpecRace, *)
(* SpecDelete, SpecFreeze: the handlers that chain several database        *)
(* callbacks are split into their statements, which interleave between two *)
(* requests.                                                               *)
(***************************************************************************)
EXTENDS Integers, Sequences, FiniteSets, TLC

VARIABLES
    parts,              \* rows of table parts
    part_versions,      \* rows of table part_versions
    assemblies,         \* rows of table assemblies
    assembly_versions,  \* rows of table assembly_versions
    assembly_parts,     \* rows of table assembly_parts (composition edges)
    part_permissions,   \* rows of table part_permissions
    edit_requests,      \* rows of table edit_requests
    release_requests,   \* rows of table release_requests
    seq,                \* AUTOINCREMENT counters, one per table
    now,                \* CURRENT_TIMESTAMP, in whole seconds
    reqs,               \* requests in flight between two database callbacks
    quota               \* how many rows each table may receive in this run

tables == <<parts, part_versions, assemblies, assembly_versions, assembly_parts,
            part_permissions, edit_requests, release_requests, seq>>
vars == <<parts, part_versions, assemblies, assembly_versions, assembly_parts,
          part_permissions, edit_requests, release_requests, seq, now, reqs, quota>>

(***************************************************************************)
(* Bounds of the model: the rows each table may receive and the seconds    *)
(* that may pass, per specification.                                       *)
(***************************************************************************)
MaxParts == 1
MaxPartVersions == 3
MaxRequests == 1
MaxTime == 1
AsmMaxParts == 2
AsmMaxPartVersions == 2
AsmMaxAssemblies == 1
AsmMaxAssemblyVersions == 2
RaceMaxPartVersions == 3
RaceMaxTime == 2
FreezeMaxTime == 2
DeleteMaxAssemblies == 2
MaxIds == 2
EditMaxParts == 1
EditMaxPartVersions == 2
CreateMaxParts == 2
CreateMaxPartVersions == 2
LabelMaxPartVersions == 3
MetaMaxParts == 1
MetaMaxAssemblies == 1

(***************************************************************************)
(* Values.                                                                 *)
(***************************************************************************)
NULL == "NULL"
NullTime == -1

Users == {"admin", "approver", "des1"}

Role(u) == IF u = "admin" THEN "admin"
           ELSE IF u = "approver" THEN "approver" ELSE "designer"

PartCodes == {"PN-1", "PN-2"}
AssemblyCodes == {"ASM-1"}
Paths == {NULL, "w"}
Labels == {NULL, "V1"}

\* the ids a request may name
PartIds == 1..quota.parts
PartVersionIds == 1..quota.part_versions
AssemblyIds == 1..quota.assemblies
AssemblyVersionIds == 1..quota.assembly_versions
RequestIds == 1..MaxRequests

\* the part_version_ids arrays of at most n ids a request may carry
IdListsUpTo(n) == UNION {[1..k -> PartVersionIds] : k \in 0..n}
IdLists == IdListsUpTo(MaxIds)

Range(s) == {s[i] : i \in DOMAIN s}

\* VLabel for a label that numbers from the count itself
VLabelOfCount(count) == "V" \o ToString(count)

\* `V${count + 1}`
VLabel(count) == "V" \o ToString(count + 1)

\* isApproverOrAdmin for a check that lets designers pass as well
isStaff(role) == role \in {"approver", "admin", "designer"}

VALID_CRITICALITY == {"normal", "low", "high", "critical"}
VALID_LIFECYCLE == {"draft", "active", "released", "obsolete"}

\* validateEnum(value, allowed, fieldName): TRUE when it returns a message;
\* NULL stands for a body without the field
validateEnum(value, allowed) == value # NULL /\ value \notin allowed

\* the criticality a request body may carry, NULL when it has none
CriticalityInputs == {NULL, "high", "bogus"}

\* the lifecycle_state a request body may carry, NULL when it has none
LifecycleInputs == {NULL, "active", "bogus"}

isApproverOrAdmin(role) == role = "approver" \/ role = "admin"

\* requireRole(...roles)
requireRole(roles, u) == Role(u) \in roles

(***************************************************************************)
(* Queries.                                                                *)
(***************************************************************************)
VersionsOfPart(pv, partId) == {v \in pv : v.part_id = partId}
VersionsOfAssembly(av, assemblyId) == {v \in av : v.assembly_id = assemblyId}

\* ORDER BY created_at DESC LIMIT 1: created_at has a resolution of one
\* second and SQL leaves the order of rows with equal keys open, so every
\* row with the greatest created_at is a possible answer.
LatestRows(rows) == {r \in rows : \A o \in rows : o.created_at <= r.created_at}

\* the status of the row the query may return, NULL when it returns no row
LatestStatus(rows) == IF rows = {} THEN {NULL} ELSE {r.status : r \in LatestRows(rows)}

getLatestPartVersion(pv, partId) == LatestStatus(VersionsOfPart(pv, partId))
getLatestAssemblyVersion(av, assemblyId) == LatestStatus(VersionsOfAssembly(av, assemblyId))

\* canEditPart for a check that lets every designer edit every part
canEditPartAnyDesigner(userId, role, partId) ==
    \/ role = "admin"
    \/ role = "designer" /\ \E p \in parts : p.id = partId

canEditPart(userId, role, partId) ==
    \/ role = "admin"
    \/ \E p \in parts : p.id = partId /\ p.owner_id = userId
    \/ /\ \E p \in parts : p.id = partId
       /\ \E g \in part_permissions :
             g.part_id = partId /\ g.user_id = userId /\ g.can_edit

\* ReferenceCount with the join on the part id instead of the version id
ReferenceCountWrongJoin(ap, pv, partId) ==
    Cardinality({e \in ap : e.part_version_id = partId})

\* SELECT COUNT(*) FROM assembly_parts ap JOIN part_versions pv
\*   ON ap.part_version_id = pv.id WHERE pv.part_id = ?
ReferenceCount(ap, pv, partId) ==
    Cardinality({e \in ap : \E v \in pv : v.id = e.part_version_id /\ v.part_id = partId})

\* SELECT id, status FROM part_versions WHERE id IN (...)
SelectPartVersions(pv, ids) == {v \in pv : v.id \in Range(ids)}

(***************************************************************************)
(* Row constructors and updates.                                           *)
(***************************************************************************)
\* value || 'normal'
OrNormal(value) == IF value # NULL THEN value ELSE "normal"

\* a row of parts: criticality || 'normal', lifecycle_state TEXT DEFAULT 'draft'
NewPart(id, part_code, userId, criticality) ==
    [id |-> id, part_code |-> part_code, owner_id |-> userId,
     criticality |-> OrNormal(criticality), lifecycle_state |-> "draft"]

\* a row of assemblies
NewAssembly(id, assembly_code, userId, criticality) ==
    [id |-> id, assembly_code |-> assembly_code, owner_id |-> userId,
     criticality |-> OrNormal(criticality), lifecycle_state |-> "draft"]

NewPartVersion(id, partId, label, workingPath, t) ==
    [id |-> id, part_id |-> partId, version_label |-> label, status |-> "working",
     storage_path |-> NULL, working_path |-> workingPath,
     frozen_by |-> NULL, frozen_at |-> NullTime, created_at |-> t]

NewAssemblyVersion(id, assemblyId, label, workingPath, t) ==
    [id |-> id, assembly_id |-> assemblyId, version_label |-> label, status |-> "working",
     storage_path |-> NULL, working_path |-> workingPath,
     frozen_by |-> NULL, frozen_at |-> NullTime, created_at |-> t]

\* COALESCE(storage_path, working_path)
Coalesce(a, b) == IF a # NULL THEN a ELSE b

\* SET status = 'frozen', storage_path = COALESCE(...), frozen_by = ?, frozen_at = CURRENT_TIMESTAMP
FreezeRow(v, userId, t) ==
    [v EXCEPT !.status = "frozen",
              !.storage_path = Coalesce(v.storage_path, v.working_path),
              !.frozen_by = userId, !.frozen_at = t]

\* the freezeQuery of the release-request approval
ReleaseFreezeRow(v) ==
    [v EXCEPT !.status = "frozen",
              !.storage_path = Coalesce(v.storage_path, v.working_path)]

\* the UPDATE of bulk-freeze, for a row it selects
BulkFreezeRow(v, userId, t) ==
    [v EXCEPT !.status = "frozen", !.frozen_by = userId, !.frozen_at = t]

Idle == [pc |-> "idle"]

InitWith(q) ==
    /\ parts = {}
    /\ part_versions = {}
    /\ assemblies = {}
    /\ assembly_versions = {}
    /\ assembly_parts = {}
    /\ part_permissions = {}
    /\ edit_requests = {}
    /\ release_requests = {}
    /\ seq = [parts |-> 0, part_versions |-> 0, assemblies |-> 0,
              assembly_versions |-> 0, edit_requests |-> 0, release_requests |-> 0]
    /\ now = 0
    /\ reqs = [s \in 1..2 |-> Idle]
    /\ quota = q

\* a second passes
Tick ==
    /\ now < quota.time
    /\ now' = now + 1
    /\ UNCHANGED <<tables, reqs, quota>>

(***************************************************************************)
(* Parts.  For every handler H, HStatus is the HTTP status it answers with *)
(* and H the change it makes to the tables.  failAt names the INSERT that  *)
(* the database refuses with an error (disk full, database locked, ...);   *)
(* "none" when every statement succeeds.                                   *)
(***************************************************************************)
FailPoints == {"none", "version", "edges"}

\* PartCodeTaken for a table without the UNIQUE constraint
PartCodeFree(ps, part_code) == FALSE

\* INSERT INTO parts: the UNIQUE constraint on part_code
PartCodeTaken(ps, part_code) == \E p \in ps : p.part_code = part_code

CreatePartStatus(u, part_code, criticality, failAt) ==
    IF ~requireRole({"designer", "admin"}, u) THEN 403
    ELSE IF validateEnum(criticality, VALID_CRITICALITY) THEN 400
    ELSE IF PartCodeTaken(parts, part_code) THEN 400
    ELSE IF failAt = "version" THEN 500
    ELSE 201

\* INSERT OR IGNORE INTO part_permissions (part_id, user_id, can_edit) VALUES (?, ?, 1)
InsertGrantOrIgnore(grants, partId, userId) ==
    IF \E g \in grants : g.part_id = partId /\ g.user_id = userId
    THEN grants
    ELSE grants \cup {[part_id |-> partId, user_id |-> userId, can_edit |-> TRUE]}

\* POST /api/parts
CreatePart(u, part_code, working_path, criticality, failAt) ==
    /\ UNCHANGED <<assemblies, assembly_versions, assembly_parts, edit_requests,
                   release_requests, now, reqs, quota>>
    /\ IF CreatePartStatus(u, part_code, criticality, failAt) \in {403, 400}
       THEN UNCHANGED <<parts, part_versions, part_permissions, seq>>
       ELSE /\ seq.parts < quota.parts
            /\ seq.part_versions < quota.part_versions
            /\ LET partId == seq.parts + 1
                   versionId == seq.part_versions + 1
               IN /\ parts' = parts \cup
                        {NewPart(partId, part_code, u, criticality)}
                  /\ IF failAt = "version"
                     THEN /\ seq' = [seq EXCEPT !.parts = partId]
                          /\ UNCHANGED <<part_versions, part_permissions>>
                     ELSE /\ seq' = [seq EXCEPT !.parts = partId,
                                                !.part_versions = versionId]
                          /\ part_versions' = part_versions \cup
                                {NewPartVersion(versionId, partId, "V1", working_path, now)}
                          /\ part_permissions' =
                                InsertGrantOrIgnore(part_permissions, partId, u)

DeletePartStatus(u, partId) ==
    IF Role(u) # "admin" THEN 403
    ELSE IF ReferenceCount(assembly_parts, part_versions, partId) > 0 THEN 400
    ELSE 200

UpdatePartStatus(u, partId, criticality, lifecycle_state) ==
    IF ~canEditPart(u, Role(u), partId) THEN 403
    ELSE IF lifecycle_state # NULL /\ lifecycle_state \notin VALID_LIFECYCLE THEN 400
    ELSE 200

\* UPDATE parts SET ..., criticality = COALESCE(?, criticality),
\*   lifecycle_state = COALESCE(?, lifecycle_state) WHERE id = ?
UpdatePartRows(ps, partId, criticality, lifecycle_state) ==
    {IF p.id = partId
     THEN [p EXCEPT !.criticality = Coalesce(criticality, p.criticality),
                    !.lifecycle_state = Coalesce(lifecycle_state, p.lifecycle_state)]
     ELSE p : p \in ps}

\* PUT /api/parts/:part_id
UpdatePart(u, partId, criticality, lifecycle_state) ==
    /\ UNCHANGED <<part_versions, assemblies, assembly_versions, assembly_parts,
                   part_permissions, edit_requests, release_requests, seq, now, reqs, quota>>
    /\ IF UpdatePartStatus(u, partId, criticality, lifecycle_state) = 200
       THEN parts' = UpdatePartRows(parts, partId, criticality, lifecycle_state)
       ELSE UNCHANGED parts

\* DELETE FROM part_permissions, edit_requests, part_versions, parts, in this order
DeletePartRows(ids) ==
    /\ part_permissions' = {g \in part_permissions : g.part_id \notin ids}
    /\ edit_requests' = {r \in edit_requests : r.part_id \notin ids}
    /\ part_versions' = {v \in part_versions : v.part_id \notin ids}
    /\ parts' = {p \in parts : p.id \notin ids}

\* DELETE /api/parts/:part_id
DeletePart(u, partId) ==
    /\ UNCHANGED <<assemblies, assembly_versions, assembly_parts, release_requests,
                   seq, now, reqs, quota>>
    /\ IF DeletePartStatus(u, partId) = 200
       THEN DeletePartRows({partId})
       ELSE UNCHANGED <<parts, part_versions, part_permissions, edit_requests>>

\* the DELETE statement of the transaction that fails with a database error
DeleteFailPoints == {"part_permissions", "edit_requests", "part_versions", "parts"}

\* DeleteOutcome for errors that go unnoticed unless the last DELETE reports them
DeleteOutcomeUnnoticed(failAt) == IF failAt = "parts" THEN "ROLLBACK" ELSE "COMMIT"

\* How the transaction ends.  COMMIT is issued in the callback of the last
\* DELETE, ROLLBACK when that callback receives an error.  The first three
\* DELETEs are run without a callback: their error is emitted as an 'error'
\* event that nothing listens to, which stops the process with the
\* transaction open, so that the database discards it.
DeleteOutcome(failAt) ==
    IF failAt = "none" THEN "COMMIT"
    ELSE IF failAt = "parts" THEN "ROLLBACK"
    ELSE "STOP"

\* DELETE /api/parts/:part_id where the DELETE named by failAt fails
DeletePartOn(u, partId, failAt) ==
    /\ UNCHANGED <<assemblies, assembly_versions, assembly_parts, release_requests,
                   seq, now, reqs, quota>>
    /\ IF DeletePartStatus(u, partId) = 200 /\ DeleteOutcome(failAt) = "COMMIT"
       THEN /\ part_permissions' = IF failAt = "part_permissions" THEN part_permissions
                                   ELSE {g \in part_permissions : g.part_id # partId}
            /\ edit_requests' = IF failAt = "edit_requests" THEN edit_requests
                                ELSE {r \in edit_requests : r.part_id # partId}
            /\ part_versions' = IF failAt = "part_versions" THEN part_versions
                                ELSE {v \in part_versions : v.part_id # partId}
            /\ parts' = IF failAt = "parts" THEN parts
                        ELSE {p \in parts : p.id # partId}
       ELSE UNCHANGED <<parts, part_versions, part_permissions, edit_requests>>

\* lastVersion && lastVersion.status !== 'frozen'
NotFrozen(lastStatus) == lastStatus # NULL /\ lastStatus # "frozen"

CreateVersionStatus(u, partId, lastStatus) ==
    IF ~canEditPart(u, Role(u), partId) THEN 403
    ELSE IF NotFrozen(lastStatus) THEN 400
    ELSE 201

\* version_label || `V${count + 1}`
NextLabel(version_label, count) ==
    IF version_label # NULL THEN version_label ELSE VLabel(count)

\* INSERT INTO part_versions of CreateVersion
InsertPartVersion(pv, id, partId, label, workingPath, t) ==
    pv \cup {NewPartVersion(id, partId, label, workingPath, t)}

\* POST /api/parts/:part_id/versions
CreateVersion(u, partId, version_label, working_path) ==
    /\ UNCHANGED <<parts, assemblies, assembly_versions, assembly_parts, part_permissions,
                   edit_requests, release_requests, now, reqs, quota>>
    /\ \E lastStatus \in getLatestPartVersion(part_versions, partId) :
          IF CreateVersionStatus(u, partId, lastStatus) # 201
          THEN UNCHANGED <<part_versions, seq>>
          ELSE /\ seq.part_versions < quota.part_versions
               /\ LET count == Cardinality(VersionsOfPart(part_versions, partId))
                      versionId == seq.part_versions + 1
                  IN /\ part_versions' =
                           InsertPartVersion(part_versions, versionId, partId,
                                             NextLabel(version_label, count),
                                             working_path, now)
                     /\ seq' = [seq EXCEPT !.part_versions = versionId]

FreezeStatus(u, partId, versionId) ==
    IF ~isApproverOrAdmin(Role(u)) THEN 403
    ELSE IF ~\E v \in part_versions : v.id = versionId /\ v.part_id = partId THEN 404
    ELSE 200

\* UPDATE part_versions SET ... WHERE id = ? AND part_id = ?
FreezePartVersion(pv, versionId, partId, userId, t) ==
    {IF v.id = versionId /\ v.part_id = partId THEN FreezeRow(v, userId, t) ELSE v : v \in pv}

\* POST /api/parts/:part_id/versions/:version_id/freeze
Freeze(u, partId, versionId) ==
    /\ UNCHANGED <<parts, assemblies, assembly_versions, assembly_parts, part_permissions,
                   edit_requests, release_requests, seq, now, reqs, quota>>
    /\ IF FreezeStatus(u, partId, versionId) = 200
       THEN part_versions' = FreezePartVersion(part_versions, versionId, partId, u, now)
       ELSE UNCHANGED part_versions

\* SELECT COUNT(*) FROM assembly_parts WHERE part_version_id = ?
LinkCount(ap, versionId) == Cardinality({e \in ap : e.part_version_id = versionId})

\* version_id 0 stands for a request without version_id
RollbackStatus(u, partId, version_id, lastStatus) ==
    IF version_id = 0 THEN 400
    ELSE IF ~canEditPart(u, Role(u), partId) THEN 403
    ELSE IF LinkCount(assembly_parts, version_id) > 0 THEN 400
    ELSE IF NotFrozen(lastStatus) THEN 400
    ELSE 201

\* RollbackInsert as a rollback that also reopens the versions of the part
RollbackReopen(pv, id, partId, label, t) ==
    {IF v.part_id = partId THEN [v EXCEPT !.status = "working"] ELSE v : v \in pv}
        \cup {NewPartVersion(id, partId, label, NULL, t)}

\* INSERT INTO part_versions (part_id, version_label, status) of Rollback
RollbackInsert(pv, id, partId, label, t) ==
    pv \cup {NewPartVersion(id, partId, label, NULL, t)}

\* POST /api/parts/:part_id/rollback
Rollback(u, partId, version_id) ==
    /\ UNCHANGED <<parts, assemblies, assembly_versions, assembly_parts, part_permissions,
                   edit_requests, release_requests, now, reqs, quota>>
    /\ \E lastStatus \in getLatestPartVersion(part_versions, partId) :
          IF RollbackStatus(u, partId, version_id, lastStatus) # 201
          THEN UNCHANGED <<part_versions, seq>>
          ELSE /\ seq.part_versions < quota.part_versions
               /\ LET count == Cardinality(VersionsOfPart(part_versions, partId))
                      versionId == seq.part_versions + 1
                  IN /\ part_versions' =
                           RollbackInsert(part_versions, versionId, partId, VLabel(count), now)
                     /\ seq' = [seq EXCEPT !.part_versions = versionId]

\* BulkReferenced for a check that looks at the first id of the batch only
BulkReferencedFirst(ids) ==
    {p \in parts : /\ p.id \in ids /\ \A i \in ids : p.id <= i
                   /\ ReferenceCount(assembly_parts, part_versions, p.id) > 0}

\* the parts of the batch that the reference check of bulk-delete names
BulkReferenced(ids) ==
    {p \in parts : p.id \in ids /\ ReferenceCount(assembly_parts, part_versions, p.id) > 0}

BulkDeleteStatus(u, ids) ==
    IF ~requireRole({"admin"}, u) THEN 403
    ELSE IF ids = {} THEN 400
    ELSE IF BulkReferenced(ids) # {} THEN 400
    ELSE 200

\* POST /api/parts/bulk-delete
BulkDelete(u, ids) ==
    /\ UNCHANGED <<assemblies, assembly_versions, assembly_parts, release_requests,
                   seq, now, reqs, quota>>
    /\ IF BulkDeleteStatus(u, ids) = 200
       THEN DeletePartRows(ids)
       ELSE UNCHANGED <<parts, part_versions, part_permissions, edit_requests>>

BulkFreezeStatus(u, ids) ==
    IF ~requireRole({"admin", "approver"}, u) THEN 403
    ELSE IF ids = {} THEN 400
    ELSE 200

\* UPDATE part_versions SET ... WHERE id IN (...) AND status = 'working'
BulkFreezeRows(pv, ids, userId, t) ==
    {IF v.id \in ids /\ v.status = "working" THEN BulkFreezeRow(v, userId, t) ELSE v : v \in pv}

\* POST /api/parts/bulk-freeze
BulkFreeze(u, ids) ==
    /\ UNCHANGED <<parts, assemblies, assembly_versions, assembly_parts, part_permissions,
                   edit_requests, release_requests, seq, now, reqs, quota>>
    /\ IF BulkFreezeStatus(u, ids) = 200
       THEN part_versions' = BulkFreezeRows(part_versions, ids, u, now)
       ELSE UNCHANGED part_versions

(***************************************************************************)
(* Assemblies.                                                             *)
(***************************************************************************)
\* SomeNotFound and SomeNotFrozen for a handler that leaves the check out
SomeNotFoundSkipped(pv, ids) == FALSE
SomeNotFrozenSkipped(pv, ids) == FALSE

\* rows.length !== part_version_ids.length
SomeNotFound(pv, ids) == Cardinality(SelectPartVersions(pv, ids)) # Len(ids)

\* rows.find((row) => row.status !== 'frozen')
SomeNotFrozen(pv, ids) == \E row \in SelectPartVersions(pv, ids) : row.status # "frozen"

\* INSERT INTO assemblies: the UNIQUE constraint on assembly_code
AssemblyCodeTaken(as, assembly_code) == \E a \in as : a.assembly_code = assembly_code

CreateAssemblyStatus(u, assembly_code, ids, failAt) ==
    IF Role(u) # "designer" /\ Role(u) # "admin" THEN 403
    ELSE IF Len(ids) = 0 THEN 400
    ELSE IF SomeNotFound(part_versions, ids) THEN 400
    ELSE IF SomeNotFrozen(part_versions, ids) THEN 400
    ELSE IF AssemblyCodeTaken(assemblies, assembly_code) THEN 400
    ELSE IF failAt # "none" THEN 500
    ELSE 201

\* INSERT INTO assembly_parts (assembly_version_id, part_version_id) VALUES ...
InsertEdges(ap, assemblyVersionId, ids) ==
    ap \cup {[assembly_version_id |-> assemblyVersionId, part_version_id |-> ids[i]] :
                i \in DOMAIN ids}

\* POST /api/assemblies
CreateAssembly(u, assembly_code, ids, working_path, criticality, failAt) ==
    /\ UNCHANGED <<parts, part_versions, part_permissions, edit_requests,
                   release_requests, now, reqs, quota>>
    /\ IF CreateAssemblyStatus(u, assembly_code, ids, failAt) \in {403, 400}
       THEN UNCHANGED <<assemblies, assembly_versions, assembly_parts, seq>>
       ELSE /\ seq.assemblies < quota.assemblies
            /\ seq.assembly_versions < quota.assembly_versions
            /\ LET assemblyId == seq.assemblies + 1
                   assemblyVersionId == seq.assembly_versions + 1
               IN /\ assemblies' = assemblies \cup
                        {NewAssembly(assemblyId, assembly_code, u, criticality)}
                  /\ IF failAt = "version"
                     THEN /\ seq' = [seq EXCEPT !.assemblies = assemblyId]
                          /\ UNCHANGED <<assembly_versions, assembly_parts>>
                     ELSE /\ seq' = [seq EXCEPT !.assemblies = assemblyId,
                                                !.assembly_versions = assemblyVersionId]
                          /\ assembly_versions' = assembly_versions \cup
                                {NewAssemblyVersion(assemblyVersionId, assemblyId, "V1",
                                                    working_path, now)}
                          /\ IF failAt = "edges"
                             THEN UNCHANGED assembly_parts
                             ELSE assembly_parts' =
                                     InsertEdges(assembly_parts, assemblyVersionId, ids)

CreateAssemblyVersionStatus(u, assemblyId, ids, failAt, lastStatus) ==
    IF Len(ids) = 0 THEN 400
    ELSE IF NotFrozen(lastStatus) THEN 400
    ELSE IF SomeNotFound(part_versions, ids) THEN 400
    ELSE IF SomeNotFrozen(part_versions, ids) THEN 400
    ELSE IF failAt # "none" THEN 500
    ELSE 201

\* POST /api/assemblies/:assembly_id/versions
CreateAssemblyVersion(u, assemblyId, version_label, ids, working_path, failAt) ==
    /\ UNCHANGED <<parts, part_versions, assemblies, part_permissions, edit_requests,
                   release_requests, now, reqs, quota>>
    /\ \E lastStatus \in getLatestAssemblyVersion(assembly_versions, assemblyId) :
          IF \/ CreateAssemblyVersionStatus(u, assemblyId, ids, failAt, lastStatus) = 400
             \/ failAt = "version"
          THEN UNCHANGED <<assembly_versions, assembly_parts, seq>>
          ELSE /\ seq.assembly_versions < quota.assembly_versions
               /\ LET count == Cardinality(VersionsOfAssembly(assembly_versions, assemblyId))
                      assemblyVersionId == seq.assembly_versions + 1
                  IN /\ assembly_versions' = assembly_versions \cup
                           {NewAssemblyVersion(assemblyVersionId, assemblyId,
                                               NextLabel(version_label, count),
                                               working_path, now)}
                     /\ seq' = [seq EXCEPT !.assembly_versions = assemblyVersionId]
                     /\ IF failAt = "edges"
                        THEN UNCHANGED assembly_parts
                        ELSE assembly_parts' =
                                InsertEdges(assembly_parts, assemblyVersionId, ids)

FreezeAssemblyVersionStatus(u, assemblyId, versionId) ==
    IF ~isApproverOrAdmin(Role(u)) THEN 403
    ELSE IF ~\E v \in assembly_versions : v.id = versionId /\ v.assembly_id = assemblyId
    THEN 404
    ELSE 200

\* UPDATE assembly_versions SET ... WHERE id = ? AND assembly_id = ?
FreezeAssemblyVersionRows(av, versionId, assemblyId, userId, t) ==
    {IF v.id = versionId /\ v.assembly_id = assemblyId THEN FreezeRow(v, userId, t) ELSE v :
        v \in av}

\* POST /api/assemblies/:assembly_id/versions/:version_id/freeze
FreezeAssemblyVersion(u, assemblyId, versionId) ==
    /\ UNCHANGED <<parts, part_versions, assemblies, assembly_parts, part_permissions,
                   edit_requests, release_requests, seq, now, reqs, quota>>
    /\ IF FreezeAssemblyVersionStatus(u, assemblyId, versionId) = 200
       THEN assembly_versions' =
               FreezeAssemblyVersionRows(assembly_versions, versionId, assemblyId, u, now)
       ELSE UNCHANGED assembly_versions

DeleteAssemblyStatus(u, assemblyId) == IF Role(u) # "admin" THEN 403 ELSE 200

\* DeleteAssemblyEdges for a DELETE that compares the edge with the assembly id
DeleteAssemblyEdgesById(ap, av, assemblyId) ==
    {e \in ap : e.assembly_version_id # assemblyId}

\* DELETE FROM assembly_parts WHERE assembly_version_id IN
\*   (SELECT id FROM assembly_versions WHERE assembly_id = ?)
DeleteAssemblyEdges(ap, av, assemblyId) ==
    {e \in ap : ~\E v \in av : v.id = e.assembly_version_id /\ v.assembly_id = assemblyId}

\* DELETE /api/assemblies/:assembly_id
DeleteAssembly(u, assemblyId) ==
    /\ UNCHANGED <<parts, part_versions, part_permissions, edit_requests,
                   release_requests, seq, now, reqs, quota>>
    /\ IF DeleteAssemblyStatus(u, assemblyId) = 200
       THEN /\ assembly_parts' =
                  DeleteAssemblyEdges(assembly_parts, assembly_versions, assemblyId)
            /\ assembly_versions' = {v \in assembly_versions : v.assembly_id # assemblyId}
            /\ assemblies' = {a \in assemblies : a.id # assemblyId}
       ELSE UNCHANGED <<assemblies, assembly_versions, assembly_parts>>

UpdateAssemblyStatus(u, assemblyId, criticality, lifecycle_state) ==
    IF lifecycle_state # NULL /\ lifecycle_state \notin VALID_LIFECYCLE THEN 400
    ELSE IF ~\E asm \in assemblies : asm.id = assemblyId THEN 404
    ELSE IF \E asm \in assemblies :
               asm.id = assemblyId /\ asm.owner_id # u /\ Role(u) # "admin" THEN 403
    ELSE 200

\* UPDATE assemblies SET ..., criticality = COALESCE(?, criticality),
\*   lifecycle_state = COALESCE(?, lifecycle_state) WHERE id = ?
UpdateAssemblyRows(as, assemblyId, criticality, lifecycle_state) ==
    {IF a.id = assemblyId
     THEN [a EXCEPT !.criticality = Coalesce(criticality, a.criticality),
                    !.lifecycle_state = Coalesce(lifecycle_state, a.lifecycle_state)]
     ELSE a : a \in as}

\* PUT /api/assemblies/:assembly_id
UpdateAssembly(u, assemblyId, criticality, lifecycle_state) ==
    /\ UNCHANGED <<parts, part_versions, assembly_versions, assembly_parts,
                   part_permissions, edit_requests, release_requests, seq, now, reqs, quota>>
    /\ IF UpdateAssemblyStatus(u, assemblyId, criticality, lifecycle_state) = 200
       THEN assemblies' =
               UpdateAssemblyRows(assemblies, assemblyId, criticality, lifecycle_state)
       ELSE UNCHANGED assemblies

(***************************************************************************)
(* Edit requests and release requests.                                     *)
(***************************************************************************)
NewRequest(id, userId) ==
    [id |-> id, requester_id |-> userId, status |-> "pending",
     decided_by |-> NULL, decided_at |-> NullTime]

CreateEditRequestStatus(u, partId) == IF Role(u) # "designer" THEN 403 ELSE 201

\* POST /api/parts/:part_id/edit-requests
CreateEditRequest(u, partId) ==
    /\ UNCHANGED <<parts, part_versions, assemblies, assembly_versions, assembly_parts,
                   part_permissions, release_requests, now, reqs, quota>>
    /\ IF CreateEditRequestStatus(u, partId) = 201
       THEN /\ seq.edit_requests < MaxRequests
            /\ edit_requests' = edit_requests \cup
                  {[part_id |-> partId] @@ NewRequest(seq.edit_requests + 1, u)}
            /\ seq' = [seq EXCEPT !.edit_requests = @ + 1]
       ELSE UNCHANGED <<edit_requests, seq>>

\* UPDATE ... SET status = ?, decided_by = ?, decided_at = CURRENT_TIMESTAMP WHERE id = ?
Decide(requests, requestId, status, userId, t) ==
    {IF r.id = requestId
     THEN [r EXCEPT !.status = status, !.decided_by = userId, !.decided_at = t]
     ELSE r : r \in requests}

\* ReplaceGrant for a statement that writes can_edit = 0
ReplaceGrantDenied(grants, partId, userId) ==
    {g \in grants : ~(g.part_id = partId /\ g.user_id = userId)}
        \cup {[part_id |-> partId, user_id |-> userId, can_edit |-> FALSE]}

\* INSERT OR REPLACE INTO part_permissions (part_id, user_id, can_edit) VALUES (?, ?, 1)
ReplaceGrant(grants, partId, userId) ==
    {g \in grants : ~(g.part_id = partId /\ g.user_id = userId)}
        \cup {[part_id |-> partId, user_id |-> userId, can_edit |-> TRUE]}

\* the status of approve and reject, for both kinds of request
DecideStatus(requests, u, requestId) ==
    IF ~isApproverOrAdmin(Role(u)) THEN 403
    ELSE IF ~\E r \in requests : r.id = requestId THEN 404
    ELSE 200

\* POST /api/edit-requests/:request_id/approve
ApproveEditRequest(u, requestId) ==
    /\ UNCHANGED <<parts, part_versions, assemblies, assembly_versions, assembly_parts,
                   release_requests, seq, now, reqs, quota>>
    /\ IF DecideStatus(edit_requests, u, requestId) = 200
       THEN \E request \in {r \in edit_requests : r.id = requestId} :
            /\ edit_requests' = Decide(edit_requests, requestId, "approved", u, now)
            /\ part_permissions' =
                  ReplaceGrant(part_permissions, request.part_id, request.requester_id)
       ELSE UNCHANGED <<edit_requests, part_permissions>>

\* POST /api/edit-requests/:request_id/reject
RejectEditRequest(u, requestId) ==
    /\ UNCHANGED <<parts, part_versions, assemblies, assembly_versions, assembly_parts,
                   part_permissions, release_requests, seq, now, reqs, quota>>
    /\ IF DecideStatus(edit_requests, u, requestId) = 200
       THEN edit_requests' = Decide(edit_requests, requestId, "rejected", u, now)
       ELSE UNCHANGED edit_requests

ItemTypes == {"part", "assembly", "bogus"}

\* item_version_id 0 stands for a request without item_version_id
CreateReleaseRequestStatus(u, item_type, item_version_id) ==
    IF item_version_id = 0 THEN 400
    ELSE IF item_type # "part" /\ item_type # "assembly" THEN 400
    ELSE 201

\* POST /api/release-requests
CreateReleaseRequest(u, item_type, item_version_id) ==
    /\ UNCHANGED <<parts, part_versions, assemblies, assembly_versions, assembly_parts,
                   part_permissions, edit_requests, now, reqs, quota>>
    /\ IF CreateReleaseRequestStatus(u, item_type, item_version_id) = 201
       THEN /\ seq.release_requests < MaxRequests
            /\ release_requests' = release_requests \cup
                  {[item_type |-> item_type, item_version_id |-> item_version_id]
                      @@ NewRequest(seq.release_requests + 1, u)}
            /\ seq' = [seq EXCEPT !.release_requests = @ + 1]
       ELSE UNCHANGED <<release_requests, seq>>

\* db.run(freezeQuery, [request.item_version_id])
ReleaseFreeze(versions, versionId) ==
    {IF v.id = versionId THEN ReleaseFreezeRow(v) ELSE v : v \in versions}

\* POST /api/release-requests/:request_id/approve
ApproveReleaseRequest(u, requestId) ==
    /\ UNCHANGED <<parts, assemblies, assembly_parts, part_permissions, edit_requests,
                   seq, now, reqs, quota>>
    /\ IF DecideStatus(release_requests, u, requestId) = 200
       THEN \E request \in {r \in release_requests : r.id = requestId} :
            /\ release_requests' = Decide(release_requests, requestId, "approved", u, now)
            /\ IF request.item_type = "part"
               THEN /\ part_versions' = ReleaseFreeze(part_versions, request.item_version_id)
                    /\ UNCHANGED assembly_versions
               ELSE /\ assembly_versions' =
                          ReleaseFreeze(assembly_versions, request.item_version_id)
                    /\ UNCHANGED part_versions
       ELSE UNCHANGED <<release_requests, part_versions, assembly_versions>>

\* POST /api/release-requests/:request_id/reject
RejectReleaseRequest(u, requestId) ==
    /\ UNCHANGED <<parts, part_versions, assemblies, assembly_versions, assembly_parts,
                   part_permissions, edit_requests, seq, now, reqs, quota>>
    /\ IF DecideStatus(release_requests, u, requestId) = 200
       THEN release_requests' = Decide(release_requests, requestId, "rejected", u, now)
       ELSE UNCHANGED release_requests

(***************************************************************************)
(* The requests, grouped by the table they work on.  U is the set of       *)
(* callers, the other parameters the sets the request bodies are drawn     *)
(* from.                                                                   *)
(***************************************************************************)
PartOps(U, L, W, F) ==
    \/ \E u \in U, c \in PartCodes, w \in W, f \in F : CreatePart(u, c, w, NULL, f)
    \/ \E u \in U, p \in PartIds : DeletePart(u, p)
    \/ \E u \in U, p \in PartIds, l \in L, w \in W : CreateVersion(u, p, l, w)
    \/ \E u \in U, p \in PartIds, v \in PartVersionIds : Freeze(u, p, v)
    \/ \E u \in U, p \in PartIds, v \in {0} \cup PartVersionIds : Rollback(u, p, v)

UpdateOps(U) ==
    \E u \in U, p \in PartIds, l \in LifecycleInputs : UpdatePart(u, p, NULL, l)

BulkOps(U) ==
    \/ \E u \in U, ids \in SUBSET PartIds : BulkDelete(u, ids)
    \/ \E u \in U, ids \in SUBSET PartVersionIds : BulkFreeze(u, ids)

AssemblyOps(U, F) ==
    \/ \E u \in U, c \in AssemblyCodes, ids \in IdLists, f \in F :
          CreateAssembly(u, c, ids, NULL, NULL, f)
    \/ \E u \in U, a \in AssemblyIds, ids \in IdLists, f \in F :
          CreateAssemblyVersion(u, a, NULL, ids, NULL, f)
    \/ \E u \in U, a \in AssemblyIds, v \in AssemblyVersionIds :
          FreezeAssemblyVersion(u, a, v)
    \/ \E u \in U, a \in AssemblyIds : DeleteAssembly(u, a)

EditRequestOps(U) ==
    \/ \E u \in U, p \in PartIds : CreateEditRequest(u, p)
    \/ \E u \in U, r \in RequestIds : ApproveEditRequest(u, r)
    \/ \E u \in U, r \in RequestIds : RejectEditRequest(u, r)

ReleaseRequestOps(U, T) ==
    \/ \E u \in U, t \in T, v \in {0} \cup PartVersionIds : CreateReleaseRequest(u, t, v)
    \/ \E u \in U, r \in RequestIds : ApproveReleaseRequest(u, r)
    \/ \E u \in U, r \in RequestIds : RejectReleaseRequest(u, r)

(***************************************************************************)
(* The same handlers, one database statement at a time.  A request in      *)
(* flight waits in reqs[s] for the statement named by its pc; the step     *)
(* executes that statement, runs its callback and issues the next one.     *)
(* Statements of different requests execute in any order.                  *)
(***************************************************************************)
Slots == DOMAIN reqs

Request(op, u, partId, target, ids, pc) ==
    [op |-> op, user |-> u, part_id |-> partId, target |-> target, ids |-> ids,
     n |-> 0, pc |-> pc]

Goto(s, pc) == reqs' = [reqs EXCEPT ![s].pc = pc]
Done(s) == reqs' = [reqs EXCEPT ![s] = Idle]

\* canEditPart answers an admin at once, and reads the part for anyone else
AfterRole(u, pc) == IF Role(u) = "admin" THEN pc ELSE "owner"

\* the pc after canEditPart allowed the request
Allowed(r) == IF r.op = "Rollback" THEN "link" ELSE "latest"

\* POST /api/parts/:part_id/versions arrives
StartCreateVersion(s, u, partId) ==
    /\ reqs[s] = Idle
    /\ reqs' = [reqs EXCEPT ![s] =
                  Request("CreateVersion", u, partId, 0, <<>>, AfterRole(u, "latest"))]
    /\ UNCHANGED <<tables, now, quota>>

\* POST /api/parts/:part_id/rollback arrives
StartRollback(s, u, partId, version_id) ==
    /\ reqs[s] = Idle
    /\ version_id # 0
    /\ reqs' = [reqs EXCEPT ![s] =
                  Request("Rollback", u, partId, version_id, <<>>, AfterRole(u, "link"))]
    /\ UNCHANGED <<tables, now, quota>>

\* SELECT owner_id FROM parts WHERE id = ?
StepOwner(s) ==
    /\ reqs[s].pc = "owner"
    /\ IF ~\E p \in parts : p.id = reqs[s].part_id
       THEN Done(s)
       ELSE IF \E p \in parts : p.id = reqs[s].part_id /\ p.owner_id = reqs[s].user
       THEN Goto(s, Allowed(reqs[s]))
       ELSE Goto(s, "perm")
    /\ UNCHANGED <<tables, now, quota>>

\* SELECT can_edit FROM part_permissions WHERE part_id = ? AND user_id = ?
StepPerm(s) ==
    /\ reqs[s].pc = "perm"
    /\ IF \E g \in part_permissions :
             g.part_id = reqs[s].part_id /\ g.user_id = reqs[s].user /\ g.can_edit
       THEN Goto(s, Allowed(reqs[s]))
       ELSE Done(s)
    /\ UNCHANGED <<tables, now, quota>>

\* SELECT COUNT(*) FROM assembly_parts WHERE part_version_id = ?
StepLink(s) ==
    /\ reqs[s].pc = "link"
    /\ IF LinkCount(assembly_parts, reqs[s].target) > 0 THEN Done(s) ELSE Goto(s, "latest")
    /\ UNCHANGED <<tables, now, quota>>

\* getLatestPartVersion
StepLatest(s) ==
    /\ reqs[s].pc = "latest"
    /\ \E lastStatus \in getLatestPartVersion(part_versions, reqs[s].part_id) :
          IF NotFrozen(lastStatus) THEN Done(s) ELSE Goto(s, "count")
    /\ UNCHANGED <<tables, now, quota>>

\* SELECT COUNT(*) FROM part_versions WHERE part_id = ?
StepCount(s) ==
    /\ reqs[s].pc = "count"
    /\ reqs' = [reqs EXCEPT ![s].pc = "insert",
                            ![s].n = Cardinality(VersionsOfPart(part_versions,
                                                                reqs[s].part_id))]
    /\ UNCHANGED <<tables, now, quota>>

\* INSERT INTO part_versions
StepInsert(s) ==
    /\ reqs[s].pc = "insert"
    /\ seq.part_versions < quota.part_versions
    /\ LET versionId == seq.part_versions + 1
           label == VLabel(reqs[s].n)
       IN /\ part_versions' =
                IF reqs[s].op = "Rollback"
                THEN RollbackInsert(part_versions, versionId, reqs[s].part_id, label, now)
                ELSE InsertPartVersion(part_versions, versionId, reqs[s].part_id, label,
                                       NULL, now)
          /\ seq' = [seq EXCEPT !.part_versions = versionId]
    /\ Done(s)
    /\ UNCHANGED <<parts, assemblies, assembly_versions, assembly_parts, part_permissions,
                   edit_requests, release_requests, now, quota>>

\* DELETE /api/parts/:part_id arrives
StartDeletePart(s, u, partId) ==
    /\ reqs[s] = Idle
    /\ Role(u) = "admin"
    /\ reqs' = [reqs EXCEPT ![s] = Request("DeletePart", u, partId, 0, <<>>, "refcheck")]
    /\ UNCHANGED <<tables, now, quota>>

\* SELECT COUNT(*) FROM assembly_parts ap JOIN part_versions pv ...
StepRefCheck(s) ==
    /\ reqs[s].pc = "refcheck"
    /\ IF ReferenceCount(assembly_parts, part_versions, reqs[s].part_id) > 0
       THEN Done(s)
       ELSE Goto(s, "cascade")
    /\ UNCHANGED <<tables, now, quota>>

\* db.serialize: BEGIN, the four DELETEs, COMMIT
StepCascade(s) ==
    /\ reqs[s].pc = "cascade"
    /\ DeletePartRows({reqs[s].part_id})
    /\ Done(s)
    /\ UNCHANGED <<assemblies, assembly_versions, assembly_parts, release_requests,
                   seq, now, quota>>

\* POST /api/assemblies arrives
StartCreateAssembly(s, u, assembly_code, ids) ==
    /\ reqs[s] = Idle
    /\ Role(u) = "designer" \/ Role(u) = "admin"
    /\ Len(ids) # 0
    /\ reqs' = [reqs EXCEPT ![s] =
                  [code |-> assembly_code] @@ Request("CreateAssembly", u, 0, 0, ids, "select")]
    /\ UNCHANGED <<tables, now, quota>>

\* SELECT id, status FROM part_versions WHERE id IN (...)
StepSelect(s) ==
    /\ reqs[s].pc = "select"
    /\ IF SomeNotFound(part_versions, reqs[s].ids) \/ SomeNotFrozen(part_versions, reqs[s].ids)
       THEN Done(s)
       ELSE Goto(s, IF reqs[s].op = "CreateAssembly" THEN "assembly" ELSE "acount")
    /\ UNCHANGED <<tables, now, quota>>

\* INSERT INTO assemblies
StepInsertAssembly(s) ==
    /\ reqs[s].pc = "assembly"
    /\ IF AssemblyCodeTaken(assemblies, reqs[s].code)
       THEN /\ Done(s)
            /\ UNCHANGED <<assemblies, seq>>
       ELSE /\ seq.assemblies < quota.assemblies
            /\ assemblies' = assemblies \cup
                  {NewAssembly(seq.assemblies + 1, reqs[s].code, reqs[s].user, NULL)}
            /\ seq' = [seq EXCEPT !.assemblies = @ + 1]
            /\ reqs' = [reqs EXCEPT ![s].pc = "version", ![s].target = seq.assemblies + 1]
    /\ UNCHANGED <<parts, part_versions, assembly_versions, assembly_parts,
                   part_permissions, edit_requests, release_requests, now, quota>>

\* POST /api/assemblies/:assembly_id/versions arrives
StartCreateAssemblyVersion(s, u, assemblyId, ids) ==
    /\ reqs[s] = Idle
    /\ Len(ids) # 0
    /\ reqs' = [reqs EXCEPT ![s] =
                  Request("CreateAssemblyVersion", u, 0, assemblyId, ids, "alatest")]
    /\ UNCHANGED <<tables, now, quota>>

\* getLatestAssemblyVersion
StepLatestAssembly(s) ==
    /\ reqs[s].pc = "alatest"
    /\ \E lastStatus \in getLatestAssemblyVersion(assembly_versions, reqs[s].target) :
          IF NotFrozen(lastStatus) THEN Done(s) ELSE Goto(s, "select")
    /\ UNCHANGED <<tables, now, quota>>

\* SELECT COUNT(*) FROM assembly_versions WHERE assembly_id = ?
StepCountAssembly(s) ==
    /\ reqs[s].pc = "acount"
    /\ reqs' = [reqs EXCEPT ![s].pc = "version",
                            ![s].n = Cardinality(VersionsOfAssembly(assembly_versions,
                                                                    reqs[s].target))]
    /\ UNCHANGED <<tables, now, quota>>

\* INSERT INTO assembly_versions
StepInsertAssemblyVersion(s) ==
    /\ reqs[s].pc = "version"
    /\ seq.assembly_versions < quota.assembly_versions
    /\ assembly_versions' = assembly_versions \cup
          {NewAssemblyVersion(seq.assembly_versions + 1, reqs[s].target,
                              IF reqs[s].op = "CreateAssembly" THEN "V1"
                              ELSE VLabel(reqs[s].n), NULL, now)}
    /\ seq' = [seq EXCEPT !.assembly_versions = @ + 1]
    /\ reqs' = [reqs EXCEPT ![s].pc = "edges", ![s].n = seq.assembly_versions + 1]
    /\ UNCHANGED <<parts, part_versions, assemblies, assembly_parts, part_permissions,
                   edit_requests, release_requests, now, quota>>

\* INSERT INTO assembly_parts
StepInsertEdges(s) ==
    /\ reqs[s].pc = "edges"
    /\ assembly_parts' = InsertEdges(assembly_parts, reqs[s].n, reqs[s].ids)
    /\ Done(s)
    /\ UNCHANGED <<parts, part_versions, assemblies, assembly_versions, part_permissions,
                   edit_requests, release_requests, seq, now, quota>>

\* a request that is a single statement, between the steps of the others
FreezeNow(u, partId, versionId) ==
    /\ FreezeStatus(u, partId, versionId) = 200
    /\ Freeze(u, partId, versionId)

\* POST /api/parts/:part_id/versions/:version_id/freeze arrives
StartFreeze(s, u, partId, versionId) ==
    /\ reqs[s] = Idle
    /\ isApproverOrAdmin(Role(u))
    /\ reqs' = [reqs EXCEPT ![s] = Request("Freeze", u, partId, versionId, <<>>, "freeze")]
    /\ UNCHANGED <<tables, now, quota>>

\* UPDATE part_versions SET status = 'frozen', ..., frozen_by = ?, frozen_at = ...
StepFreeze(s) ==
    /\ reqs[s].pc = "freeze"
    /\ part_versions' = FreezePartVersion(part_versions, reqs[s].target, reqs[s].part_id,
                                          reqs[s].user, now)
    /\ Done(s)
    /\ UNCHANGED <<parts, assemblies, assembly_versions, assembly_parts, part_permissions,
                   edit_requests, release_requests, seq, now, quota>>

\* POST /api/release-requests/:request_id/approve arrives
StartApproveRelease(s, u, requestId) ==
    /\ reqs[s] = Idle
    /\ isApproverOrAdmin(Role(u))
    /\ reqs' = [reqs EXCEPT ![s] =
                  [item_type |-> NULL] @@
                  [Request("ApproveRelease", u, 0, 0, <<>>, "request") EXCEPT !.n = requestId]]
    /\ UNCHANGED <<tables, now, quota>>

\* SELECT * FROM release_requests WHERE id = ?
StepRequest(s) ==
    /\ reqs[s].pc = "request"
    /\ IF ~\E r \in release_requests : r.id = reqs[s].n
       THEN Done(s)
       ELSE \E request \in {r \in release_requests : r.id = reqs[s].n} :
               reqs' = [reqs EXCEPT ![s].pc = "decide",
                                    ![s].item_type = request.item_type,
                                    ![s].target = request.item_version_id]
    /\ UNCHANGED <<tables, now, quota>>

\* UPDATE release_requests SET status = 'approved', decided_by = ?, decided_at = ...
StepDecide(s) ==
    /\ reqs[s].pc = "decide"
    /\ release_requests' = Decide(release_requests, reqs[s].n, "approved", reqs[s].user, now)
    /\ Goto(s, "release")
    /\ UNCHANGED <<parts, part_versions, assemblies, assembly_versions, assembly_parts,
                   part_permissions, edit_requests, seq, now, quota>>

\* db.run(freezeQuery, [request.item_version_id])
StepReleaseFreeze(s) ==
    /\ reqs[s].pc = "release"
    /\ IF reqs[s].item_type = "part"
       THEN /\ part_versions' = ReleaseFreeze(part_versions, reqs[s].target)
            /\ UNCHANGED assembly_versions
       ELSE /\ assembly_versions' = ReleaseFreeze(assembly_versions, reqs[s].target)
            /\ UNCHANGED part_versions
    /\ Done(s)
    /\ UNCHANGED <<parts, assemblies, assembly_parts, part_permissions, edit_requests,
                   release_requests, seq, now, quota>>

\* a release request is filed, between the steps of the others
CreateReleaseRequestNow(u, item_type, item_version_id) ==
    /\ CreateReleaseRequestStatus(u, item_type, item_version_id) = 201
    /\ CreateReleaseRequest(u, item_type, item_version_id)

(***************************************************************************)
(* Spec: the version ledger of one part and its release requests, every    *)
(* request run to completion, over two seconds.                            *)
(***************************************************************************)
Init ==
    InitWith([parts |-> MaxParts, part_versions |-> MaxPartVersions,
              assemblies |-> 0, assembly_versions |-> 0, time |-> MaxTime])

Next ==
    \/ Tick
    \/ PartOps({"admin", "des1"}, {NULL}, {NULL}, {"none"})
    \/ BulkOps({"admin", "des1"})
    \/ ReleaseRequestOps({"admin", "des1"}, {"part"})

Spec == Init /\ [][Next]_vars

(***************************************************************************)
(* SpecAsm: parts, assemblies, the composition edges between them and the  *)
(* edit requests, every request run to completion within one second.       *)
(***************************************************************************)
InitAsm ==
    InitWith([parts |-> AsmMaxParts, part_versions |-> AsmMaxPartVersions,
              assemblies |-> AsmMaxAssemblies,
              assembly_versions |-> AsmMaxAssemblyVersions, time |-> 0])

NextAsm ==
    \/ PartOps({"admin", "des1"}, {NULL}, {NULL}, {"none"})
    \/ BulkOps({"admin", "des1"})
    \/ AssemblyOps({"admin", "des1"}, {"none"})
    \/ EditRequestOps({"admin", "des1"})

SpecAsm == InitAsm /\ [][NextAsm]_vars

(***************************************************************************)
(* SpecFail: as SpecAsm without the edit requests, with INSERTs that the   *)
(* database may refuse.                                                    *)
(***************************************************************************)
NextFail ==
    \/ PartOps({"admin", "des1"}, {NULL}, {NULL}, {"none"})
    \/ AssemblyOps({"admin", "des1"}, FailPoints)

SpecFail == InitAsm /\ [][NextFail]_vars

(***************************************************************************)
(* SpecEdit: who may edit a part.  The part handlers with the metadata     *)
(* update and the edit requests, called by every role.                     *)
(***************************************************************************)
InitEdit ==
    InitWith([parts |-> EditMaxParts, part_versions |-> EditMaxPartVersions,
              assemblies |-> 0, assembly_versions |-> 0, time |-> 0])

NextEdit ==
    \/ PartOps(Users, {NULL}, {NULL}, {"none"})
    \/ UpdateOps(Users)
    \/ EditRequestOps(Users)
    \/ \E u \in Users, p \in PartIds, f \in DeleteFailPoints : DeletePartOn(u, p, f)

SpecEdit == InitEdit /\ [][NextEdit]_vars

(***************************************************************************)
(* SpecCreate: the part handlers where the INSERT of the first version of  *)
(* a new part may fail, with and without a working_path.                   *)
(***************************************************************************)
InitCreate ==
    InitWith([parts |-> CreateMaxParts, part_versions |-> CreateMaxPartVersions,
              assemblies |-> 0, assembly_versions |-> 0, time |-> 0])

NextCreate == PartOps({"admin", "des1"}, {NULL}, Paths, {"none", "version"})

SpecCreate == InitCreate /\ [][NextCreate]_vars

(***************************************************************************)
(* SpecLabels: a designer creates a part, versions of it with and without  *)
(* a version_label in the request body, and rollbacks; an admin freezes.   *)
(***************************************************************************)
InitLabels ==
    InitWith([parts |-> 1, part_versions |-> LabelMaxPartVersions,
              assemblies |-> 0, assembly_versions |-> 0, time |-> 0])

NextLabels ==
    \/ \E c \in PartCodes, w \in Paths : CreatePart("des1", c, w, NULL, "none")
    \/ \E p \in PartIds, l \in Labels, w \in Paths : CreateVersion("des1", p, l, w)
    \/ \E p \in PartIds, v \in PartVersionIds : Freeze("admin", p, v)
    \/ \E p \in PartIds, v \in {0} \cup PartVersionIds : Rollback("des1", p, v)

SpecLabels == InitLabels /\ [][NextLabels]_vars

(***************************************************************************)
(* SpecMeta: the metadata of parts and assemblies.  Create and Update with *)
(* and without criticality and lifecycle_state in the request body.        *)
(***************************************************************************)
InitMeta ==
    InitWith([parts |-> MetaMaxParts, part_versions |-> MetaMaxParts,
              assemblies |-> MetaMaxAssemblies,
              assembly_versions |-> MetaMaxAssemblies, time |-> 0])

NextMeta ==
    \/ \E u \in Users, c \in PartCodes, k \in CriticalityInputs :
          CreatePart(u, c, NULL, k, "none")
    \/ \E u \in Users, p \in PartIds, k \in CriticalityInputs, l \in LifecycleInputs :
          UpdatePart(u, p, k, l)
    \/ \E u \in Users, p \in PartIds, v \in PartVersionIds : Freeze(u, p, v)
    \/ \E u \in Users, c \in AssemblyCodes, ids \in IdListsUpTo(1), k \in CriticalityInputs :
          CreateAssembly(u, c, ids, NULL, k, "none")
    \/ \E u \in Users, a \in AssemblyIds, k \in CriticalityInputs, l \in LifecycleInputs :
          UpdateAssembly(u, a, k, l)

SpecMeta == InitMeta /\ [][NextMeta]_vars

(***************************************************************************)
(* The database that holds part 1 with its version V1, as CreatePart by    *)
(* the admin leaves it.                                                    *)
(***************************************************************************)
InitOnePart(q) ==
    /\ parts = {NewPart(1, "PN-1", "admin", NULL)}
    /\ part_versions = {NewPartVersion(1, 1, "V1", NULL, 0)}
    /\ part_permissions = {[part_id |-> 1, user_id |-> "admin", can_edit |-> TRUE]}
    /\ assemblies = {}
    /\ assembly_versions = {}
    /\ assembly_parts = {}
    /\ edit_requests = {}
    /\ release_requests = {}
    /\ seq = [parts |-> 1, part_versions |-> 1, assemblies |-> 0,
              assembly_versions |-> 0, edit_requests |-> 0, release_requests |-> 0]
    /\ now = 0
    /\ reqs = [s \in 1..2 |-> Idle]
    /\ quota = q

(***************************************************************************)
(* SpecRace: two CreateVersion or Rollback requests for part 1 in flight   *)
(* at a time, their statements interleaved.                                *)
(***************************************************************************)
InitRace ==
    InitOnePart([parts |-> 1, part_versions |-> RaceMaxPartVersions,
                 assemblies |-> 0, assembly_versions |-> 0, time |-> RaceMaxTime])

NextRace ==
    \/ Tick
    \/ \E v \in PartVersionIds : FreezeNow("admin", 1, v)
    \/ \E s \in Slots, u \in {"admin", "des1"} : StartCreateVersion(s, u, 1)
    \/ \E s \in Slots, v \in PartVersionIds : StartRollback(s, "admin", 1, v)
    \/ \E s \in Slots :
          \/ StepOwner(s)
          \/ StepPerm(s)
          \/ StepLink(s)
          \/ StepLatest(s)
          \/ StepCount(s)
          \/ StepInsert(s)

SpecRace == InitRace /\ [][NextRace]_vars

(***************************************************************************)
(* SpecDelete: a DeletePart of part 1 and a CreateAssembly or              *)
(* CreateAssemblyVersion in flight together, their statements interleaved. *)
(***************************************************************************)
InitDelete ==
    InitOnePart([parts |-> 1, part_versions |-> 1, assemblies |-> DeleteMaxAssemblies,
                 assembly_versions |-> DeleteMaxAssemblies, time |-> 0])

NextDelete ==
    \/ \E v \in PartVersionIds : FreezeNow("admin", 1, v)
    \/ \E s \in Slots : StartDeletePart(s, "admin", 1)
    \/ \E s \in Slots, ids \in IdListsUpTo(1) :
          StartCreateAssembly(s, "admin", "ASM-1", ids)
    \/ \E s \in Slots, ids \in IdListsUpTo(1) :
          StartCreateAssemblyVersion(s, "admin", 1, ids)
    \/ \E s \in Slots :
          \/ StepRefCheck(s)
          \/ StepCascade(s)
          \/ StepSelect(s)
          \/ StepInsertAssembly(s)
          \/ StepLatestAssembly(s)
          \/ StepCountAssembly(s)
          \/ StepInsertAssemblyVersion(s)
          \/ StepInsertEdges(s)

SpecDelete == InitDelete /\ [][NextDelete]_vars

(***************************************************************************)
(* SpecFreeze: a Freeze of version 1 of part 1 and the approval of a       *)
(* release request in flight together, their statements interleaved.       *)
(***************************************************************************)
InitFreeze ==
    InitOnePart([parts |-> 1, part_versions |-> 1, assemblies |-> 0,
                 assembly_versions |-> 0, time |-> FreezeMaxTime])

NextFreeze ==
    \/ Tick
    \/ \E v \in PartVersionIds : CreateReleaseRequestNow("des1", "part", v)
    \/ \E s \in Slots, u \in {"admin", "approver"}, v \in PartVersionIds :
          StartFreeze(s, u, 1, v)
    \/ \E s \in Slots, u \in {"admin", "approver"}, r \in RequestIds :
          StartApproveRelease(s, u, r)
    \/ \E s \in Slots :
          \/ StepFreeze(s)
          \/ StepRequest(s)
          \/ StepDecide(s)
          \/ StepReleaseFreeze(s)

SpecFreeze == InitFreeze /\ [][NextFreeze]_vars
(***************************************************************************)
(* The claims.                                                             *)
(***************************************************************************)
Working(rows) == {v \in rows : v.status = "working"}

\* the version of rows that was created last
MostRecent(rows, v) == \A o \in rows : o.id <= v.id

\* the versions were created in different seconds
NoTies(rows) == \A v, o \in rows : v.created_at = o.created_at => v.id = o.id

\* C1: after any sequence of requests, each run to completion, every part has
\* at most one working version, and that one is its most recently created
\* version.
C1_SingleWorkingLatest ==
    \A p \in parts :
        LET rows == VersionsOfPart(part_versions, p.id)
        IN /\ Cardinality(Working(rows)) <= 1
           /\ \A w \in Working(rows) : MostRecent(rows, w)

\* C2: every composition edge points to a part version that is frozen, when
\* the edge is inserted and for as long as the part version exists.
C2_EdgesPointToFrozen ==
    \A e \in assembly_parts : \A v \in part_versions :
        v.id = e.part_version_id => v.status = "frozen"

\* an edge inserted by CreateAssemblyVersion whose part version exists
C2_Witness ==
    \E e \in assembly_parts, av \in assembly_versions, v \in part_versions :
        /\ av.id = e.assembly_version_id /\ av.version_label = "V2"
        /\ v.id = e.part_version_id

\* every change of status between the rows before and the rows after is
\* working -> frozen
OnlyFreezes(before, after) ==
    \A v \in before, w \in after :
        (v.id = w.id /\ v.status # w.status) =>
            (v.status = "working" /\ w.status = "frozen")

\* C3: the only status change a version undergoes is working -> frozen; no
\* request turns a frozen version back into a working one.
C3_FreezeIsOneWay ==
    [][/\ OnlyFreezes(part_versions, part_versions')
       /\ OnlyFreezes(assembly_versions, assembly_versions')]_vars

\* a frozen version that was followed by a working one (CreateVersion or
\* Rollback ran after the freeze)
C3_Witness ==
    \E v, w \in part_versions :
        /\ v.part_id = w.part_id /\ v.id < w.id
        /\ v.status = "frozen" /\ w.status = "working"

FrozenComplete(v) ==
    v.status = "frozen" =>
        (v.frozen_by # NULL /\ v.frozen_at # NullTime /\ v.storage_path # NULL)

\* C4: every frozen part version and assembly version has frozen_by,
\* frozen_at and storage_path set.
C4_FrozenHasProvenance ==
    /\ \A v \in part_versions : FrozenComplete(v)
    /\ \A v \in assembly_versions : FrozenComplete(v)

\* a composition edge references a version of the part
Referenced(partId) ==
    \E e \in assembly_parts, v \in part_versions :
        v.part_id = partId /\ v.id = e.part_version_id

\* C5: a Delete of a part by an admin fails exactly when a composition edge
\* references a version of the part, and a failed Delete leaves the part,
\* its versions, its grants and its edit requests as they were.
C5_DeleteFailsIffReferenced ==
    /\ [](\A p \in PartIds : DeletePartStatus("admin", p) # 200 <=> Referenced(p))
    /\ [][\A p \in PartIds :
            (Referenced(p) /\ DeletePart("admin", p)) =>
                UNCHANGED <<parts, part_versions, part_permissions, edit_requests>>]_vars

\* a referenced part with a grant and an edit request, whose Delete is refused
C5_Witness ==
    \E p \in parts :
        /\ Referenced(p.id)
        /\ DeletePartStatus("admin", p.id) = 400
        /\ \E g \in part_permissions : g.part_id = p.id
        /\ \E r \in edit_requests : r.part_id = p.id

C7_NoTwoWorkingUnderRace ==
    \A p \in parts :
        LET rows == VersionsOfPart(part_versions, p.id)
        IN NoTies(rows) => Cardinality(Working(rows)) <= 1

\* C8: no interleaving of a part Delete with a CreateAssembly or
\* CreateAssemblyVersion leaves a composition edge whose part version no
\* longer exists.
C8_NoDanglingEdge ==
    \A e \in assembly_parts : \E v \in part_versions : v.id = e.part_version_id

\* C9: a CreateAssembly or CreateAssemblyVersion in which an INSERT fails
\* leaves none of its rows behind.
C9_AssemblyCreationAtomic ==
    [][\A u \in Users, ids \in IdLists, f \in FailPoints \ {"none"} :
          /\ \A c \in AssemblyCodes :
                CreateAssembly(u, c, ids, NULL, NULL, f)
                    => UNCHANGED <<assemblies, assembly_versions, assembly_parts>>
          /\ \A a \in AssemblyIds :
                CreateAssemblyVersion(u, a, NULL, ids, NULL, f)
                    => UNCHANGED <<assemblies, assembly_versions, assembly_parts>>]_vars

\* the list is empty, names a part version that does not exist, or names
\* one that is not frozen
BadIds(ids) ==
    \/ Len(ids) = 0
    \/ \E i \in DOMAIN ids : ~\E v \in part_versions : v.id = ids[i]
    \/ \E i \in DOMAIN ids : \E v \in part_versions : v.id = ids[i] /\ v.status # "frozen"

\* C10: a CreateAssembly or CreateAssemblyVersion whose part_version_ids is
\* empty, names a missing part version or names one that is not frozen
\* leaves assemblies, assembly versions and composition edges as they were.
C10_RejectedCreationChangesNothing ==
    [][\/ UNCHANGED <<assemblies, assembly_versions, assembly_parts>>
       \/ \A ids \in IdLists :
             BadIds(ids) =>
                \A u \in Users :
                   /\ \A c \in AssemblyCodes : ~CreateAssembly(u, c, ids, NULL, NULL, "none")
                   /\ \A a \in AssemblyIds :
                         ~CreateAssemblyVersion(u, a, NULL, ids, NULL, "none")]_vars

\* an assembly whose latest version is frozen, beside a frozen and a working
\* part version: a list that names both is refused
C10_Witness ==
    \E a \in assemblies, v, w \in part_versions :
        /\ v.status = "frozen" /\ w.status = "working"
        /\ BadIds(<<v.id, w.id>>)
        /\ CreateAssemblyVersionStatus("des1", a.id, <<v.id, w.id>>, "none", "frozen") = 400
        /\ getLatestAssemblyVersion(assembly_versions, a.id) = {"frozen"}

\* a part of the batch has a version that a composition edge references
BatchReferenced(ids) == \E p \in parts : p.id \in ids /\ Referenced(p.id)

\* no row of the four tables belongs to a part of the batch
BatchGone(ids, ps, pv, grants, requests) ==
    /\ ps = {p \in parts : p.id \notin ids}
    /\ pv = {v \in part_versions : v.part_id \notin ids}
    /\ grants = {g \in part_permissions : g.part_id \notin ids}
    /\ requests = {r \in edit_requests : r.part_id \notin ids}

BecomesFrozen(before, after) ==
    \E v \in before, w \in after :
        v.id = w.id /\ v.status # "frozen" /\ w.status = "frozen"

\* the step is a Freeze, a bulk-freeze or a release approval by u
FreezingCall(u) ==
    \/ \E p \in PartIds, v \in PartVersionIds : Freeze(u, p, v)
    \/ \E ids \in SUBSET PartVersionIds : BulkFreeze(u, ids)
    \/ \E r \in RequestIds : ApproveReleaseRequest(u, r)
    \/ \E a \in AssemblyIds, v \in AssemblyVersionIds : FreezeAssemblyVersion(u, a, v)

\* C12: a version becomes frozen only in a step that is a call by an
\* approver or admin, and a Freeze, release approval or bulk-freeze by a
\* designer changes no version and no request.
C12_OnlyApproversFreeze ==
    [][/\ (BecomesFrozen(part_versions, part_versions')
              \/ BecomesFrozen(assembly_versions, assembly_versions'))
          => \E u \in Users : Role(u) \in {"approver", "admin"} /\ FreezingCall(u)
       /\ \/ UNCHANGED <<part_versions, assembly_versions, edit_requests, release_requests>>
          \/ \A u \in Users : Role(u) = "designer" => ~FreezingCall(u)]_vars

\* a release request filed by a designer was approved and its version is
\* frozen, while the designer's own approval is refused
C12_Witness ==
    \E r \in release_requests, v \in part_versions :
        /\ Role(r.requester_id) = "designer" /\ r.status = "approved"
        /\ v.id = r.item_version_id /\ v.status = "frozen"
        /\ DecideStatus(release_requests, r.requester_id, r.id) = 403
        /\ FreezeStatus(r.requester_id, v.part_id, v.id) = 403

\* u is an admin, the owner of p, or holds a grant to edit p
MayEdit(u, p) ==
    \/ Role(u) = "admin"
    \/ p.owner_id = u
    \/ \E g \in part_permissions : g.part_id = p.id /\ g.user_id = u /\ g.can_edit

\* the step is an Update, CreateVersion or Rollback by u on the part
EditingCall(u, partId) ==
    \/ \E l \in LifecycleInputs : UpdatePart(u, partId, NULL, l)
    \/ CreateVersion(u, partId, NULL, NULL)
    \/ \E v \in PartVersionIds : Rollback(u, partId, v)

\* C13: on an existing part, Update, CreateVersion and Rollback pass the
\* authorization check exactly when the caller is an admin, the owner or
\* holds a grant with can_edit; a call that fails the check answers 403 and
\* changes neither the part nor its versions.
C13_EditAuthorization ==
    /\ [](\A p \in parts, u \in Users :
            /\ \A l \in LifecycleInputs :
                  UpdatePartStatus(u, p.id, NULL, l) # 403 <=> MayEdit(u, p)
            /\ \A ls \in getLatestPartVersion(part_versions, p.id) :
                  /\ CreateVersionStatus(u, p.id, ls) # 403 <=> MayEdit(u, p)
                  /\ \A v \in PartVersionIds :
                        RollbackStatus(u, p.id, v, ls) # 403 <=> MayEdit(u, p))
    /\ [][\/ UNCHANGED <<parts, part_versions>>
           \/ \A p \in parts, u \in Users :
                 ~MayEdit(u, p) => ~EditingCall(u, p.id)]_vars

\* a part of the admin on which the designer holds a grant and the approver
\* none; the part was updated and has a second version
C13_Witness ==
    \E p \in parts :
        /\ p.owner_id = "admin" /\ p.lifecycle_state = "active"
        /\ MayEdit("des1", p) /\ ~MayEdit("approver", p)
        /\ UpdatePartStatus("approver", p.id, NULL, NULL) = 403
        /\ UpdatePartStatus("des1", p.id, NULL, NULL) = 200
        /\ Cardinality(VersionsOfPart(part_versions, p.id)) = 2

\* C14: CreateVersion, Update and Rollback on a part id that does not exist
\* are refused for every role, so that every version row names an existing
\* part.
C14_NoVersionOfMissingPart ==
    \A v \in part_versions : \E p \in parts : p.id = v.part_id

Decided(r) == r.status \in {"approved", "rejected"}

\* every request that was decided before the step and still exists after it
\* has the same status, decided_by and decided_at
DecisionsKept(before, after) ==
    \A r \in before, q \in after :
        (Decided(r) /\ q.id = r.id) =>
            /\ q.status = r.status
            /\ q.decided_by = r.decided_by
            /\ q.decided_at = r.decided_at

\* C15: an edit request or release request is decided at most once: no
\* later approve or reject changes the status, decided_by or decided_at of
\* a request that is approved or rejected.
C15_DecidedOnce ==
    [][/\ DecisionsKept(edit_requests, edit_requests')
       /\ DecisionsKept(release_requests, release_requests')]_vars

EditGrant(partId, userId) == [part_id |-> partId, user_id |-> userId, can_edit |-> TRUE]

C17_ReleaseApprovalFreezesAlike ==
    [][\A u \in Users, r \in release_requests, v \in part_versions :
          (/\ r.item_type = "part" /\ r.item_version_id = v.id /\ v.status = "working"
           /\ DecideStatus(release_requests, u, r.id) = 200
           /\ ApproveReleaseRequest(u, r.id))
              => part_versions' = FreezePartVersion(part_versions, v.id, v.part_id, u, now)]_vars

\* the part that the step added has one version, V1 and working, and its
\* creator holds a grant to edit it
CreatedWhole(u) ==
    \E p \in parts' \ parts :
        /\ p.owner_id = u
        /\ EditGrant(p.id, u) \in part_permissions'
        /\ \E v \in part_versions' :
              /\ VersionsOfPart(part_versions', p.id) = {v}
              /\ v.version_label = "V1" /\ v.status = "working"

\* C18: a Create of a part that succeeds leaves the part with exactly one
\* version, V1 and working, and a grant for its creator; a Create whose
\* INSERT of the first version fails reports the failure and leaves no part
\* row.
C18_CreatePartAtomic ==
    [][\A u \in Users, c \in PartCodes, w \in Paths, f \in {"none", "version"} :
          CreatePart(u, c, w, NULL, f) =>
             /\ CreatePartStatus(u, c, NULL, f) = 201 => CreatedWhole(u)
             /\ CreatePartStatus(u, c, NULL, f) # 201 => parts' = parts]_vars

C20_RollbackAddsOneVersion ==
    [][\A u \in Users, p \in PartIds, t \in PartVersionIds :
          Rollback(u, p, t) =>
             LET n == Cardinality(VersionsOfPart(part_versions, p))
             IN /\ part_versions \subseteq part_versions'
                /\ \E w \in part_versions' :
                      /\ part_versions' \ part_versions = {w}
                      /\ w.part_id = p /\ w.status = "working"
                      /\ w.version_label = "V" \o ToString(n + 1)
                      /\ w.frozen_by = NULL /\ w.storage_path = NULL]_vars

\* a part with two versions, the latest frozen, on which a Rollback to the
\* first version is accepted
C20_Witness ==
    \E p \in parts, v, w \in part_versions :
        /\ v.part_id = p.id /\ w.part_id = p.id /\ v.id < w.id
        /\ getLatestPartVersion(part_versions, p.id) = {"frozen"}
        /\ RollbackStatus("admin", p.id, v.id, "frozen") = 201
        /\ seq.part_versions < quota.part_versions

\* the version of the part that was created last is not frozen
LastCreatedNotFrozen(partId) ==
    \E v \in VersionsOfPart(part_versions, partId) :
        MostRecent(VersionsOfPart(part_versions, partId), v) /\ v.status # "frozen"

\* C21: a Rollback adds no version when the version to restore is
\* referenced by a composition edge, and none when the version of the part
\* that was created last is not frozen.
C21_RollbackRefused ==
    [][\/ UNCHANGED part_versions
       \/ \A u \in Users, p \in PartIds, t \in PartVersionIds :
             (LinkCount(assembly_parts, t) > 0 \/ LastCreatedNotFrozen(p))
                => ~Rollback(u, p, t)]_vars

\* every version that was frozen before the step has the same frozen_by and
\* frozen_at after it
ProvenanceKept(before, after) ==
    \A v \in before, w \in after :
        (v.id = w.id /\ v.status = "frozen") =>
            (w.frozen_by = v.frozen_by /\ w.frozen_at = v.frozen_at)

\* C22: a Freeze of a version that is frozen already is refused or leaves
\* its frozen_by and frozen_at as they were, whoever issues it.
C22_RefreezeKeepsProvenance ==
    [][\A u \in Users, p \in PartIds, v \in PartVersionIds :
          Freeze(u, p, v) => ProvenanceKept(part_versions, part_versions')]_vars

ValidItem(i) == i.criticality \in VALID_CRITICALITY /\ i.lifecycle_state \in VALID_LIFECYCLE

\* the body carries a criticality or lifecycle_state outside the closed sets
InvalidBody(criticality, lifecycle_state) ==
    \/ criticality # NULL /\ criticality \notin VALID_CRITICALITY
    \/ lifecycle_state # NULL /\ lifecycle_state \notin VALID_LIFECYCLE

\* C23: the criticality and the lifecycle_state of every part and assembly
\* are values of their closed sets, and a Create or Update that carries a
\* value outside them leaves parts and assemblies as they were.
C23_EnumsValid ==
    /\ [](\A p \in parts : ValidItem(p))
    /\ [](\A a \in assemblies : ValidItem(a))
    /\ [][\/ UNCHANGED <<parts, assemblies>>
           \/ \A u \in Users, k \in CriticalityInputs :
                 /\ InvalidBody(k, NULL) =>
                       /\ \A c \in PartCodes : ~CreatePart(u, c, NULL, k, "none")
                       /\ \A c \in AssemblyCodes, ids \in IdListsUpTo(1) :
                             ~CreateAssembly(u, c, ids, NULL, k, "none")
                 /\ \A l \in LifecycleInputs :
                       InvalidBody(k, l) =>
                          /\ \A p \in PartIds : ~UpdatePart(u, p, k, l)
                          /\ \A a \in AssemblyIds : ~UpdateAssembly(u, a, k, l)]_vars

\* the version that the request in slot s writes to
Written(s, rows) == {v \in rows : v.id = reqs[s].target}

\* C24: when a Freeze by one caller and the approval of a release request
\* by another write to the same version, in any order of their statements,
\* the write that is applied last, to the version the other has frozen,
\* leaves it frozen with the frozen_by and frozen_at of its own writer:
\* the pair is that of the last writer, never null and never mixed.
C24_LastWriteWins ==
    [][\A s \in Slots :
          (/\ reqs[s].pc \in {"freeze", "release"}
           /\ \E w \in Written(s, part_versions) : w.status = "frozen"
           /\ (StepFreeze(s) \/ StepReleaseFreeze(s))) =>
             \A v \in Written(s, part_versions') :
                 /\ v.status = "frozen"
                 /\ v.frozen_by = reqs[s].user
                 /\ v.frozen_at = now]_vars

\* the rows that the step added
AddedRows(before, after) == {r \in after : ~\E o \in before : o.id = r.id}

\* the version that the release request names, in the table of its item_type
TargetVersions(r, pv, av) ==
    {v \in (IF r.item_type = "part" THEN pv ELSE av) : v.id = r.item_version_id}

\* the requests that the step approved
NewlyApproved(before, after) ==
    {r \in after : r.status = "approved" /\ \E o \in before : o.id = r.id /\ o.status # "approved"}

\* C25: an edit request is added only for a part that exists and a release
\* request only for a version that exists in the table of its item_type, so
\* that the target of every release request exists and is frozen when the
\* request has just been approved.
C25_RequestsNameExistingItems ==
    [][/\ \A r \in AddedRows(edit_requests, edit_requests') :
             \E p \in parts : p.id = r.part_id
       /\ \A r \in AddedRows(release_requests, release_requests') :
             TargetVersions(r, part_versions, assembly_versions) # {}
       /\ \A r \in NewlyApproved(release_requests, release_requests') :
             \E v \in TargetVersions(r, part_versions', assembly_versions') :
                 v.status = "frozen"]_vars

\* u is the owner of the assembly or an admin: the rule of UpdateAssembly
MayEditAssembly(u, a) == a.owner_id = u \/ Role(u) = "admin"

\* C26: a CreateAssemblyVersion by a caller who is neither the owner of the
\* assembly nor an admin adds no assembly version and no composition edge.
C26_AssemblyVersionAuthorization ==
    [][\/ UNCHANGED <<assembly_versions, assembly_parts>>
       \/ \A u \in Users, a \in assemblies :
             ~MayEditAssembly(u, a) =>
                /\ UpdateAssemblyStatus(u, a.id, NULL, NULL) = 403
                /\ \A ids \in IdLists :
                      ~CreateAssemblyVersion(u, a.id, NULL, ids, NULL, "none")]_vars

\* C27: a CreateAssemblyVersion by an admin succeeds exactly when the list
\* is not empty, every id of it names an existing part version that is
\* frozen, and the latest version of the assembly is frozen or absent;
\* naming a part version twice does not make the list fail.
C27_AssemblyVersionSucceedsIff ==
    \A a \in assemblies, ids \in IdLists :
        \A ls \in getLatestAssemblyVersion(assembly_versions, a.id) :
            CreateAssemblyVersionStatus("admin", a.id, ids, "none", ls) = 201
                <=> (~BadIds(ids) /\ ~NotFrozen(ls))

\* C28: a Rollback whose version_id names no version of the part (none at
\* all, or a version of another part) adds no version.
C28_RollbackTargetBelongsToPart ==
    [][\/ UNCHANGED part_versions
       \/ \A u \in Users, p \in parts, t \in PartVersionIds :
             (~\E v \in part_versions : v.id = t /\ v.part_id = p.id)
                => ~Rollback(u, p.id, t)]_vars

\* the composition edges that belong to a version of the assembly
EdgesOfAssembly(ap, av, assemblyId) ==
    {e \in ap : \E v \in av : v.id = e.assembly_version_id /\ v.assembly_id = assemblyId}

\* the composition edges that name a version of the part
EdgesToPart(ap, partId) ==
    {e \in ap : \E v \in part_versions : v.id = e.part_version_id /\ v.part_id = partId}

C30_LabelsUnique ==
    /\ [](\A v, w \in part_versions :
            (v.part_id = w.part_id /\ v.version_label = w.version_label) => v.id = w.id)
    /\ [][\/ UNCHANGED part_versions
           \/ \A u \in Users, p \in PartIds :
                 CreateVersion(u, p, NULL, NULL) =>
                    \E w \in part_versions' \ part_versions :
                        w.version_label =
                           "V" \o ToString(Cardinality(VersionsOfPart(part_versions, p)) + 1)]_vars
====
